---- MODULE Spec2Model ----
(***************************************************************************)
(* A model of the conventional-commit header parser of convcom             *)
(* (src/commit.go): Parser.Parse and the character scanner                 *)
(* Parser.parseHeader, one action per branch of the scanner's loop.        *)
(*                                                                         *)
(* A Go string is modelled as what it is, a sequence of bytes (0..255).    *)
(* The inputs are the UTF-8 encodings of short texts over a small alphabet *)
(* of code points that has every character the scanner treats specially,   *)
(* two ordinary letters (one of them two bytes wide), and the white space  *)
(* characters tab and newline.                                             *)
(***************************************************************************)
EXTENDS Integers, Sequences, FiniteSets, TLC

VARIABLES
    entry,          \* the operation the caller invoked: "Parse" or "parseHeader"
    s,              \* the caller's argument: the message (Parse) or the line (parseHeader)
    pc,             \* "Parse" | "parseHeader" (in the loop) | "returned" | "done"
    h,              \* parseHeader's parameter h
    line,           \* parseHeader's parameter line
    i,              \* byte index of the loop `for i, c := range h`
    inDescription,  \* parseHeader's local
    inScope,        \* parseHeader's local
    b,              \* parseHeader's strings.Builder, as the bytes written so far
    commit,         \* parseHeader's local *Commit
    hret,           \* what parseHeader returned: [c, err]
    pret,           \* what Parse returned: [c, err]
    errText,        \* what err.Error() returned to the caller, "" before the call
    cfg,            \* the Config the caller built and the Parser points to
    newret,         \* what New returned: [p, err]
    other,          \* the locals of a second caller while it is not running
    heap,           \* the backing arrays of the slices, by the name of the array
    confs           \* the Configs of the callers that share the package, by caller

vars == <<entry, s, pc, h, line, i, inDescription, inScope, b, commit, hret, pret,
          errText, cfg, newret, other, heap, confs>>

---------------------------------------------------------------------------
(* Bounds of the model *)

\* longest text (in code points) of the exhaustive inputs
MaxLen == 4
\* longest type and scope (in code points) of the header-shaped inputs
MaxWord == 2
\* longest description (in code points) of the header-shaped inputs
MaxDesc == 2

---------------------------------------------------------------------------
(* Characters *)

LParen == 40
RParen == 41
Colon == 58
Space == 32
Newline == 10

\* 'a' and U+00E9 (two bytes in UTF-8): characters of the scanner's default branch
Letters == {97, 233}
\* the alphabet of the exhaustive inputs; 9 is the tab
Sigma == Letters \cup {LParen, RParen, Colon, Space, Newline, 9}
\* the alphabet of the descriptions of the header-shaped inputs
DescSigma == {97, Space, 9}
\* the line numbers a caller of parseHeader passes
LineNumbers == {1, 2}

\* unicode.IsSpace, as strings.TrimSpace uses it
isSpace(r) == r \in {9, 10, 11, 12, 13, 32, 133, 160}

\* utf8.EncodeRune, for the code points below U+10000
EncodeRune(r) ==
    IF r < 128 THEN <<r>>
    ELSE IF r < 2048 THEN <<192 + (r \div 64), 128 + (r % 64)>>
    ELSE <<224 + (r \div 4096), 128 + ((r \div 64) % 64), 128 + (r % 64)>>

IsCont(str, k) == k <= Len(str) /\ str[k] >= 128 /\ str[k] <= 191

\* utf8.DecodeRuneInString(str[k:]) for a 0-based byte index k < len(str):
\* the rune and its width; an invalid or incomplete encoding is U+FFFD, width 1
DecodeRune(str, k) ==
    LET b0 == str[k + 1] IN
    IF b0 < 128 THEN [rune |-> b0, size |-> 1]
    ELSE IF b0 >= 194 /\ b0 <= 223 /\ IsCont(str, k + 2)
         THEN [rune |-> (b0 - 192) * 64 + (str[k + 2] - 128), size |-> 2]
    ELSE IF b0 >= 224 /\ b0 <= 239 /\ IsCont(str, k + 2) /\ IsCont(str, k + 3)
         THEN [rune |-> (b0 - 224) * 4096 + (str[k + 2] - 128) * 64 + (str[k + 3] - 128),
               size |-> 3]
    ELSE [rune |-> 65533, size |-> 1]

\* the start (0-based) of the last rune of a non-empty string, as
\* utf8.DecodeLastRuneInString finds it
LastRuneStart(str) ==
    LET n == Len(str) IN
    IF str[n] < 128 THEN n - 1
    ELSE IF n >= 2 /\ IsCont(str, n) /\ str[n - 1] >= 194 /\ str[n - 1] <= 223 THEN n - 2
    ELSE IF n >= 3 /\ IsCont(str, n) /\ IsCont(str, n - 1)
            /\ str[n - 2] >= 224 /\ str[n - 2] <= 239 THEN n - 3
    ELSE n - 1

\* the Go string of a text (a sequence of code points)
RECURSIVE Utf8(_)
Utf8(text) == IF text = <<>> THEN <<>> ELSE EncodeRune(Head(text)) \o Utf8(Tail(text))

\* the texts of at most n code points of the alphabet A
Texts(A, n) == UNION {[1..k -> A] : k \in 0..n}

---------------------------------------------------------------------------
(* Inputs *)

\* every text of at most MaxLen characters
ShortLines == {Utf8(t) : t \in Texts(Sigma, MaxLen)}

\* what follows the type, up to the colon: nothing, or an opened scope that is
\* left open, closed, or closed and followed by one more character
ScopeParts ==
    {<<>>} \cup
    {<<LParen>> \o Utf8(w) \o tl :
        w \in Texts(Letters, MaxWord),
        tl \in {<<>>, <<RParen>>} \cup {<<RParen>> \o EncodeRune(x) : x \in Sigma}}

\* header-shaped lines: type, scope part, colon, space, description
HeaderLines ==
    {Utf8(t) \o p \o <<Colon, Space>> \o Utf8(d) :
        t \in Texts(Letters, MaxWord), p \in ScopeParts, d \in Texts(DescSigma, MaxDesc)}

\* inputs of the tests and of the README, as their bytes
\* "type(scope):"
TypeScopeColon ==
    <<116, 121, 112, 101, 40, 115, 99, 111, 112, 101, 41, 58>>
\* "type"
TypeOnly ==
    <<116, 121, 112, 101>>
\* "type(scope)"
TypeScope ==
    <<116, 121, 112, 101, 40, 115, 99, 111, 112, 101, 41>>
\* "type(scope): "
TypeScopeNoDescription ==
    <<116, 121, 112, 101, 40, 115, 99, 111, 112, 101, 41, 58, 32>>
\* "type(scope): description"
TypeScopeDescription ==
    <<116, 121, 112, 101, 40, 115, 99, 111, 112, 101, 41, 58, 32, 100, 101, 115,
      99, 114, 105, 112, 116, 105, 111, 110>>
\* "fix(foo): fixed the foos\n\nSo many broken foos!\n\nFixes #7\n"
ReadmeMessage ==
    <<102, 105, 120, 40, 102, 111, 111, 41, 58, 32, 102, 105, 120, 101, 100, 32,
      116, 104, 101, 32, 102, 111, 111, 115, 10, 10, 83, 111, 32, 109, 97, 110,
      121, 32, 98, 114, 111, 107, 101, 110, 32, 102, 111, 111, 115, 33, 10, 10, 70,
      105, 120, 101, 115, 32, 35, 55, 10>>
LiteralInputs ==
    {TypeScopeColon, TypeOnly, TypeScope,
     TypeScopeNoDescription, TypeScopeDescription, ReadmeMessage}

Inputs == ShortLines \cup HeaderLines \cup LiteralInputs

---------------------------------------------------------------------------
(* Values *)

\* the nil *Commit
NilCommit == [nil |-> TRUE]
\* the nil error
NoError == [kind |-> "nil"]

\* &Commit{}: every field zero-valued (strings and nil slices and maps as <<>>)
Commit ==
    [Type |-> <<>>, Scope |-> <<>>, Description |-> <<>>, Header |-> <<>>,
     MergeHeader |-> <<>>, Body |-> <<>>, Footers |-> <<>>, Mentions |-> <<>>,
     References |-> <<>>, Notes |-> <<>>, Reverts |-> <<>>, IsBreaking |-> FALSE]

ParseError(char, ln, message) ==
    [kind |-> "ParseError", Char |-> char, Line |-> ln, Message |-> message]

\* errors.New
errorsNew(message) == [kind |-> "errorString", Message |-> message]

\* fmt.Sprintf(format, field) for a format with one %s, given as the text
\* before and after the verb
fmtError(format, scope) ==
    LET field == IF scope THEN "scope" ELSE "type"
    IN  format[1] \o field \o format[2]

MustBeFollowed == <<"commit ", " must be followed by a colon and a single space">>
IllegalSpace == <<"illegal ' ' character in ", "">>

\* strings.TrimSpace: the string without its leading and trailing white space
RECURSIVE TrimLeft(_)
TrimLeft(str) ==
    IF str = <<>> THEN str
    ELSE LET d == DecodeRune(str, 0) IN
         IF isSpace(d.rune) THEN TrimLeft(SubSeq(str, d.size + 1, Len(str))) ELSE str

RECURSIVE TrimRight(_)
TrimRight(str) ==
    IF str = <<>> THEN str
    ELSE LET k == LastRuneStart(str) IN
         IF isSpace(DecodeRune(str, k).rune) THEN TrimRight(SubSeq(str, 1, k)) ELSE str

\* TrimSpace with strings.TrimLeft's effect only: trailing white space stays
TrimSpaceLeftOnly(str) == TrimLeft(str)

TrimSpace(str) == TrimRight(TrimLeft(str))

\* strings.Split(str, "\n"): the lines of str, at least one
RECURSIVE Split(_)
Split(str) ==
    IF \A k \in 1..Len(str) : str[k] # Newline THEN <<str>>
    ELSE LET k == CHOOSE k \in 1..Len(str) :
                      str[k] = Newline /\ \A j \in 1..(k - 1) : str[j] # Newline
         IN  <<SubSeq(str, 1, k - 1)>> \o Split(SubSeq(str, k + 1, Len(str)))

\* strconv's decimal text of an integer, as the verb %d prints it
RECURSIVE Itoa(_)
Itoa(n) ==
    IF n < 0 THEN "-" \o Itoa(0 - n)
    ELSE IF n < 10 THEN <<"0", "1", "2", "3", "4", "5", "6", "7", "8", "9">>[n + 1]
    ELSE Itoa(n \div 10) \o Itoa(n % 10)

\* ParseError.Error with the line and the column in each other's place
ParseErrorErrorSwapped(p) == p.Message \o ":" \o Itoa(p.Char) \o " col " \o Itoa(p.Line)

\* ParseError.Error: fmt.Sprintf("%s:%d col %d", p.Message, p.Line, p.Char)
ParseErrorError(p) == p.Message \o ":" \o Itoa(p.Line) \o " col " \o Itoa(p.Char)

\* err.Error() of the errors the package returns: a ParseError formats itself,
\* the errors of errors.New and fmt.Errorf are their text
Error(err) == IF err.kind = "ParseError" THEN ParseErrorError(err) ELSE err.Message

---------------------------------------------------------------------------
(* Config and New *)

\* a nil slice, and the slice of the elements elems
NilSlice == [isNil |-> TRUE, elems |-> <<>>]
Slice(elems) == [isNil |-> FALSE, elems |-> elems]

\* a nil *regexp.Regexp, and the Regexp compiled from the expression expr
NilRegexp == [isNil |-> TRUE, expr |-> ""]
Regexp(expr) == [isNil |-> FALSE, expr |-> expr]

\* the pattern strings a caller supplies: none, a valid expression, and one
\* regexp.Compile rejects (a group that is never closed)
Patterns == {"", "^a$", "("}
InvalidPatterns == {"("}

\* regexp.Compile: (the Regexp, nil) or (nil, the syntax error); Go quotes the
\* expression in the error text with back quotes, written here as single quotes
Compile(expr) ==
    IF expr \in InvalidPatterns
    THEN [re |-> NilRegexp,
          err |-> [kind |-> "syntax.Error",
                   Message |-> "error parsing regexp: missing closing ): '" \o expr \o "'"]]
    ELSE [re |-> Regexp(expr), err |-> NoError]

\* fmt.Errorf("cannot parse <field> /%s/: %w", pattern, err)
Errorf(field, pattern, err) ==
    [kind |-> "wrapError",
     Message |-> "cannot parse " \o field \o " /" \o pattern \o "/: " \o err.Message,
     Unwrap |-> err]

\* the package-level defaults
referenceActions ==
    Slice(<<"close", "closes", "closed", "fix", "fixes", "fixed",
            "resolve", "resolves", "resolved">>)
issuePrefixes == Slice(<<"#">>)
noteKeywords == Slice(<<"BREAKING CHANGE">>)
fieldPattern == Regexp("^-(.*?)-$")
revertPattern == Regexp("^Revert\\s\"([\\s\\S]*)\"\\s*This reverts commit (\\w*)\\.")
revertGropus == Slice(<<"header", "hash">>)

\* Config{}: every field zero-valued
Config ==
    [MergePattern |-> "", mergePattern |-> NilRegexp, MergeGroups |-> NilSlice,
     ReferenceActions |-> NilSlice, IssuePrefixes |-> NilSlice,
     IssuePrefixesCaseSensitive |-> FALSE, NoteKeywords |-> NilSlice,
     FieldPattern |-> "", fieldPattern |-> NilRegexp,
     RevertPattern |-> "", revertPattern |-> NilRegexp, RevertGroups |-> NilSlice,
     CommentCharacter |-> ""]

\* the Configs a caller passes to New
Configs ==
    {[Config EXCEPT !.FieldPattern = fp, !.MergePattern = mp, !.RevertPattern = rp,
                    !.IssuePrefixes = ip, !.NoteKeywords = nk,
                    !.ReferenceActions = ra, !.RevertGroups = rg] :
        fp \in Patterns, mp \in Patterns, rp \in Patterns,
        ip \in {NilSlice, Slice(<<"gh-">>)}, nk \in {NilSlice, Slice(<<"NOTE">>)},
        ra \in {NilSlice, Slice(<<"see">>)}, rg \in {NilSlice, Slice(<<"hash">>)}}

\* the nil *Parser, and &Parser{cfg: cfg}, which points to the variable cfg
NilParser == [isNil |-> TRUE]
Parser == [isNil |-> FALSE]

\* if "" != cfg.FieldPattern { ... }: the Config after the block, and the
\* error New returns from it, if any
newFieldPattern(c) ==
    IF c.FieldPattern # ""
    THEN LET r == Compile(c.FieldPattern) IN
         IF r.err # NoError
         THEN [cfg |-> [c EXCEPT !.fieldPattern = r.re],
               err |-> Errorf("FieldPattern", c.FieldPattern, r.err)]
         ELSE [cfg |-> [c EXCEPT !.fieldPattern = fieldPattern], err |-> NoError]
    ELSE [cfg |-> c, err |-> NoError]

\* the MergePattern block without its check of err: the error is dropped
newMergePatternIgnoresError(c) ==
    IF c.MergePattern # ""
    THEN [cfg |-> [c EXCEPT !.mergePattern = Compile(c.MergePattern).re], err |-> NoError]
    ELSE [cfg |-> c, err |-> NoError]

\* if "" != cfg.MergePattern { ... }
newMergePattern(c) ==
    IF c.MergePattern # ""
    THEN LET r == Compile(c.MergePattern) IN
         [cfg |-> [c EXCEPT !.mergePattern = r.re],
          err |-> IF r.err # NoError THEN Errorf("MergePattern", c.MergePattern, r.err)
                  ELSE NoError]
    ELSE [cfg |-> c, err |-> NoError]

\* if "" != cfg.RevertPattern { ... } else { ... }
newRevertPattern(c) ==
    IF c.RevertPattern # ""
    THEN LET r == Compile(c.RevertPattern) IN
         [cfg |-> [c EXCEPT !.revertPattern = r.re],
          err |-> IF r.err # NoError THEN Errorf("RevertPattern", c.RevertPattern, r.err)
                  ELSE NoError]
    ELSE [cfg |-> [c EXCEPT !.revertPattern = revertPattern], err |-> NoError]

\* if nil == cfg.<slice> { cfg.<slice> = <default> }
orDefault(slice, default) == IF slice.isNil THEN default ELSE slice

\* New(cfg): what it returns, and the Config it leaves behind (it writes to
\* the caller's Config, also when it fails half way)
New(c) ==
    LET f == newFieldPattern(c) IN
    IF f.err # NoError THEN [p |-> NilParser, err |-> f.err, cfg |-> f.cfg]
    ELSE
    LET c1 == [f.cfg EXCEPT !.IssuePrefixes = orDefault(@, issuePrefixes)]
        m == newMergePattern(c1)
    IN
    IF m.err # NoError THEN [p |-> NilParser, err |-> m.err, cfg |-> m.cfg]
    ELSE
    LET c2 == [m.cfg EXCEPT !.NoteKeywords = orDefault(@, noteKeywords),
                            !.ReferenceActions = orDefault(@, referenceActions),
                            !.RevertGroups = orDefault(@, revertGropus)]
        r == newRevertPattern(c2)
    IN
    IF r.err # NoError THEN [p |-> NilParser, err |-> r.err, cfg |-> r.cfg]
    ELSE [p |-> Parser, err |-> NoError, cfg |-> r.cfg]

\* no second caller
NoCaller == [none |-> TRUE]

---------------------------------------------------------------------------
(* Slices as Go has them: references to backing arrays *)

\* the []string fields of Config that New defaults
SliceFields == {"IssuePrefixes", "NoteKeywords", "ReferenceActions", "RevertGroups"}

\* the package-level variable New assigns to the field f when it is nil
PackageArray(f) ==
    CASE f = "IssuePrefixes" -> "issuePrefixes"
      [] f = "NoteKeywords" -> "noteKeywords"
      [] f = "ReferenceActions" -> "referenceActions"
      [] f = "RevertGroups" -> "revertGropus"

PackageArrays == {PackageArray(f) : f \in SliceFields}

\* the backing arrays of the package-level slices after package initialisation
PackageHeap ==
    [a \in PackageArrays |->
        CASE a = "issuePrefixes" -> issuePrefixes.elems
          [] a = "noteKeywords" -> noteKeywords.elems
          [] a = "referenceActions" -> referenceActions.elems
          [] a = "revertGropus" -> revertGropus.elems]

\* a slice that refers to the backing array a, and the nil slice
Ref(a) == [isNil |-> FALSE, array |-> a]
NilRef == [isNil |-> TRUE, array |-> "nil"]

\* the callers that build a Config each, and the array of the literal that
\* caller k wrote for the field f of its Config
Callers == {"A", "B"}
OwnArray(k, f) == k \o "." \o f
OwnArrays == {OwnArray(k, f) : k \in Callers, f \in SliceFields}

\* the heap with the literals of the callers
CallersHeap ==
    [a \in PackageArrays \cup OwnArrays |->
        IF a \in PackageArrays THEN PackageHeap[a] ELSE <<"own">>]

\* the Configs caller k may build: the fields of own set by a literal, the
\* other fields left nil; MergePattern unset or one regexp.Compile rejects
SharedConfigs(k) ==
    {[Config EXCEPT !.MergePattern = mp,
                    !.IssuePrefixes = IF "IssuePrefixes" \in own
                                      THEN Ref(OwnArray(k, "IssuePrefixes")) ELSE NilRef,
                    !.NoteKeywords = IF "NoteKeywords" \in own
                                     THEN Ref(OwnArray(k, "NoteKeywords")) ELSE NilRef,
                    !.ReferenceActions = IF "ReferenceActions" \in own
                                         THEN Ref(OwnArray(k, "ReferenceActions")) ELSE NilRef,
                    !.RevertGroups = IF "RevertGroups" \in own
                                     THEN Ref(OwnArray(k, "RevertGroups")) ELSE NilRef] :
        mp \in {"", "("}, own \in {{}, {"IssuePrefixes"}, SliceFields}}

\* the slice a reference stands for, as New reads it
Deref(r) == IF r.isNil THEN NilSlice ELSE Slice(heap[r.array])

\* what `cfg.F = f` of New leaves in the field: the slice header of the
\* package-level variable where New assigned it, the caller's slice otherwise
Assigned(f, before, after) ==
    IF before.isNil /\ ~after.isNil THEN Ref(PackageArray(f)) ELSE before

\* New(c) for a Config c whose slices are references
NewOnHeap(c) ==
    LET r == New([c EXCEPT !.IssuePrefixes = Deref(@), !.NoteKeywords = Deref(@),
                           !.ReferenceActions = Deref(@), !.RevertGroups = Deref(@)])
    IN [p |-> r.p, err |-> r.err,
        cfg |-> [r.cfg EXCEPT
                   !.IssuePrefixes = Assigned("IssuePrefixes", c.IssuePrefixes, @),
                   !.NoteKeywords = Assigned("NoteKeywords", c.NoteKeywords, @),
                   !.ReferenceActions = Assigned("ReferenceActions", c.ReferenceActions, @),
                   !.RevertGroups = Assigned("RevertGroups", c.RevertGroups, @)]]

\* no callers that build Configs side by side: the package arrays only
NoConfs == <<>>
NoSharing ==
    /\ heap = PackageHeap
    /\ confs = NoConfs

\* caller k: p, err := New(&cfg)
NewShared(k) ==
    /\ pc = "callers"
    /\ confs[k].pc = "New"
    /\ confs' = [confs EXCEPT ![k] = [cfg |-> NewOnHeap(@.cfg).cfg,
                                      pc |-> "NewReturned",
                                      ret |-> [p |-> NewOnHeap(@.cfg).p,
                                               err |-> NewOnHeap(@.cfg).err]]]
    /\ UNCHANGED <<heap, entry, s, pc, h, line, i, inDescription, inScope, b, commit,
                   hret, pret, errText, cfg, newret, other>>

\* caller k, after New: cfg.F[0] = "changed"
SetElement(k, f) ==
    /\ pc = "callers"
    /\ confs[k].pc = "NewReturned"
    /\ ~confs[k].cfg[f].isNil
    /\ heap[confs[k].cfg[f].array][1] # "changed"
    /\ heap' = [heap EXCEPT ![confs[k].cfg[f].array][1] = "changed"]
    /\ UNCHANGED <<confs, entry, s, pc, h, line, i, inDescription, inScope, b, commit,
                   hret, pret, errText, cfg, newret, other>>

\* p, err := New(cfg)
NewCall ==
    /\ pc = "New"
    /\ cfg' = New(cfg).cfg
    /\ newret' = [p |-> New(cfg).p, err |-> New(cfg).err]
    /\ pc' = "NewReturned"
    /\ UNCHANGED <<heap, confs, entry, s, h, line, i, inDescription, inScope, b, commit, hret, pret,
                   errText, other>>

---------------------------------------------------------------------------
(* Parser.parseHeader *)

\* the current character of the loop and the index of the next one
cur == DecodeRune(h, i)
AtChar == pc = "parseHeader" /\ i < Len(h)

\* Fail that hands the partial Commit back with the error
FailWithCommit(err) ==
    /\ pc' = "returned"
    /\ hret' = [c |-> commit, err |-> err]
    /\ pret' = pret
    /\ i' = i

\* return nil, err
Fail(err) ==
    /\ pc' = "returned"
    /\ hret' = [c |-> NilCommit, err |-> err]
    /\ pret' = pret
    /\ i' = i

\* continue with the next character
Continue ==
    /\ pc' = pc
    /\ i' = i + cur.size
    /\ UNCHANGED <<hret, pret>>

\* the description branch that drops the spaces of the description
StepDescriptionSkipsSpace ==
    /\ pc = "parseHeader" /\ i < Len(h)
    /\ inDescription
    /\ b' = IF DecodeRune(h, i).rune = Space THEN b ELSE b \o EncodeRune(DecodeRune(h, i).rune)
    /\ pc' = pc
    /\ i' = i + DecodeRune(h, i).size
    /\ UNCHANGED <<hret, pret>>
    /\ UNCHANGED <<heap, confs, errText, cfg, newret, other, entry, s, h, line, inDescription, inScope, commit>>

\* if inDescription { b.WriteRune(c); continue }
StepDescription ==
    /\ AtChar
    /\ inDescription
    /\ b' = b \o EncodeRune(cur.rune)
    /\ Continue
    /\ UNCHANGED <<heap, confs, errText, cfg, newret, other, entry, s, h, line, inDescription, inScope, commit>>

\* case '(' without the b.Reset() that follows the type
StepLParenNoReset ==
    /\ pc = "parseHeader" /\ i < Len(h)
    /\ ~inDescription
    /\ DecodeRune(h, i).rune = LParen
    /\ IF inScope
       THEN /\ pc' = "returned"
            /\ hret' = [c |-> NilCommit,
                        err |-> ParseError(i, line, "illegal '(' character in scope")]
            /\ UNCHANGED <<pret, i, inScope, commit, b>>
       ELSE /\ inScope' = TRUE
            /\ commit' = [commit EXCEPT !.Type = b]
            /\ b' = b
            /\ IF b = <<>>
               THEN /\ pc' = "returned"
                    /\ hret' = [c |-> NilCommit,
                                err |-> ParseError(i, line, "illegal '(' character in type")]
                    /\ UNCHANGED <<pret, i>>
               ELSE /\ pc' = pc
                    /\ i' = i + DecodeRune(h, i).size
                    /\ UNCHANGED <<hret, pret>>
    /\ UNCHANGED <<heap, confs, errText, cfg, newret, other, entry, s, h, line, inDescription>>

\* case '('
StepLParen ==
    /\ AtChar
    /\ ~inDescription
    /\ cur.rune = LParen
    /\ IF inScope
       THEN /\ Fail(ParseError(i, line, "illegal '(' character in scope"))
            /\ UNCHANGED <<inScope, commit, b>>
       ELSE /\ inScope' = TRUE
            /\ commit' = [commit EXCEPT !.Type = b]
            /\ IF b = <<>>
               THEN /\ Fail(ParseError(i, line, "illegal '(' character in type"))
                    /\ b' = b
               ELSE /\ b' = <<>>
                    /\ Continue
    /\ UNCHANGED <<heap, confs, errText, cfg, newret, other, entry, s, h, line, inDescription>>

\* case ')' without the b.Reset() that follows the scope
StepRParenNoReset ==
    /\ pc = "parseHeader" /\ i < Len(h)
    /\ ~inDescription
    /\ DecodeRune(h, i).rune = RParen
    /\ IF ~inScope
       THEN /\ pc' = "returned"
            /\ hret' = [c |-> NilCommit,
                        err |-> ParseError(i, line, "illegal ')' character in type")]
            /\ UNCHANGED <<pret, i, commit, b>>
       ELSE /\ commit' = [commit EXCEPT !.Scope = b]
            /\ b' = b
            /\ pc' = pc
            /\ i' = i + DecodeRune(h, i).size
            /\ UNCHANGED <<hret, pret>>
    /\ UNCHANGED <<heap, confs, errText, cfg, newret, other, entry, s, h, line, inDescription, inScope>>

\* case ')'
StepRParen ==
    /\ AtChar
    /\ ~inDescription
    /\ cur.rune = RParen
    /\ IF ~inScope
       THEN /\ Fail(ParseError(i, line, "illegal ')' character in type"))
            /\ UNCHANGED <<commit, b>>
       ELSE /\ commit' = [commit EXCEPT !.Scope = b]
            /\ b' = <<>>
            /\ Continue
    /\ UNCHANGED <<heap, confs, errText, cfg, newret, other, entry, s, h, line, inDescription, inScope>>

\* the peek ahead without its third case: a second space goes unnoticed
ColonCharNoDoubleSpace(str, k) ==
    LET length == Len(str) IN
    IF k + 1 = length THEN k
    ELSE IF str[k + 2] # Space THEN k + 1
    ELSE 0

\* the peek ahead of case ':': the column of the error, 0 for none
ColonChar(str, k) ==
    LET length == Len(str) IN
    IF k + 1 = length THEN k
    ELSE IF str[k + 2] # Space THEN k + 1
    ELSE IF k + 2 < length /\ str[k + 3] = Space THEN k + 2
    ELSE 0

\* case ':' that stores the buffer as Type inside a scope too
StepColonAlwaysStoresType ==
    /\ pc = "parseHeader" /\ i < Len(h)
    /\ ~inDescription
    /\ DecodeRune(h, i).rune = Colon
    /\ IF ColonChar(h, i) # 0
       THEN /\ pc' = "returned"
            /\ hret' = [c |-> NilCommit,
                        err |-> ParseError(ColonChar(h, i), line,
                                           fmtError(MustBeFollowed, inScope))]
            /\ UNCHANGED <<pret, i, inDescription, commit, b>>
       ELSE /\ commit' = [commit EXCEPT !.Type = b]
            /\ b' = <<>>
            /\ inDescription' = TRUE
            /\ pc' = pc
            /\ i' = i + DecodeRune(h, i).size
            /\ UNCHANGED <<hret, pret>>
    /\ UNCHANGED <<heap, confs, errText, cfg, newret, other, entry, s, h, line, inScope>>

\* case ':'
StepColon ==
    /\ AtChar
    /\ ~inDescription
    /\ cur.rune = Colon
    /\ LET char == ColonChar(h, i) IN
       IF char # 0
       THEN /\ Fail(ParseError(char, line, fmtError(MustBeFollowed, inScope)))
            /\ UNCHANGED <<inDescription, commit, b>>
       ELSE /\ IF ~inScope
               THEN /\ commit' = [commit EXCEPT !.Type = b]
                    /\ b' = <<>>
               ELSE UNCHANGED <<commit, b>>
            /\ inDescription' = TRUE
            /\ Continue
    /\ UNCHANGED <<heap, confs, errText, cfg, newret, other, entry, s, h, line, inScope>>

\* case ' ' with the message of the type whatever the state
StepSpaceAlwaysType ==
    /\ pc = "parseHeader" /\ i < Len(h)
    /\ ~inDescription
    /\ DecodeRune(h, i).rune = Space
    /\ pc' = "returned"
    /\ hret' = [c |-> NilCommit, err |-> ParseError(i, line, fmtError(IllegalSpace, FALSE))]
    /\ UNCHANGED <<pret, i>>
    /\ UNCHANGED <<heap, confs, errText, cfg, newret, other, entry, s, h, line, inDescription, inScope, commit, b>>

\* case ' '
StepSpace ==
    /\ AtChar
    /\ ~inDescription
    /\ cur.rune = Space
    /\ Fail(ParseError(i, line, fmtError(IllegalSpace, inScope)))
    /\ UNCHANGED <<heap, confs, errText, cfg, newret, other, entry, s, h, line, inDescription, inScope, commit, b>>

\* default
StepDefault ==
    /\ AtChar
    /\ ~inDescription
    /\ cur.rune \notin {LParen, RParen, Colon, Space}
    /\ IF commit.Scope # <<>>
       THEN /\ Fail(ParseError(i, line,
                    "commit scope must be followed by a colon and a single space"))
            /\ b' = b
       ELSE /\ b' = b \o EncodeRune(cur.rune)
            /\ Continue
    /\ UNCHANGED <<heap, confs, errText, cfg, newret, other, entry, s, h, line, inDescription, inScope, commit>>

\* after the loop, with the error one column further, at len(h)
EndOfLineAtLen ==
    /\ pc = "parseHeader"
    /\ i = Len(h)
    /\ IF ~inDescription
       THEN /\ pc' = "returned"
            /\ hret' = [c |-> NilCommit,
                        err |-> ParseError(Len(h), line, fmtError(MustBeFollowed, inScope))]
            /\ UNCHANGED <<pret, i, commit>>
       ELSE /\ commit' = [commit EXCEPT !.Description = TrimSpace(b)]
            /\ pc' = "returned"
            /\ hret' = [c |-> commit', err |-> NoError]
            /\ UNCHANGED <<pret, i>>
    /\ UNCHANGED <<heap, confs, errText, cfg, newret, other, entry, s, h, line, inDescription, inScope, b>>

\* after the loop
EndOfLine ==
    /\ pc = "parseHeader"
    /\ i = Len(h)
    /\ IF ~inDescription
       THEN /\ Fail(ParseError(Len(h) - 1, line, fmtError(MustBeFollowed, inScope)))
            /\ commit' = commit
       ELSE /\ commit' = [commit EXCEPT !.Description = TrimSpace(b)]
            /\ pc' = "returned"
            /\ hret' = [c |-> commit', err |-> NoError]
            /\ UNCHANGED <<pret, i>>
    /\ UNCHANGED <<heap, confs, errText, cfg, newret, other, entry, s, h, line, inDescription, inScope, b>>

---------------------------------------------------------------------------
(* Parser.Parse *)

\* the call of Parse with a lazy default: it fills in a missing field matcher
\* of the shared Config
ParseCallSetsDefault ==
    /\ pc = "Parse"
    /\ h' = Split(s)[1]
    /\ line' = 1
    /\ pc' = "parseHeader"
    /\ cfg' = [cfg EXCEPT !.fieldPattern = fieldPattern]
    /\ UNCHANGED <<heap, confs, errText, newret, other, entry, s, i, inDescription, inScope, b, commit,
                   hret, pret>>

\* the call of Parse that hands the whole message to parseHeader
ParseCallWholeMessage ==
    /\ pc = "Parse"
    /\ h' = s
    /\ line' = 1
    /\ pc' = "parseHeader"
    /\ UNCHANGED <<heap, confs, errText, cfg, newret, other, entry, s, i, inDescription, inScope, b, commit,
                   hret, pret>>

\* lines := strings.Split(s, "\n"); header := lines[0]; p.parseHeader(header, 1)
ParseCall ==
    /\ pc = "Parse"
    /\ h' = Split(s)[1]
    /\ line' = 1
    /\ pc' = "parseHeader"
    /\ UNCHANGED <<heap, confs, errText, cfg, newret, other, entry, s, i, inDescription, inScope, b, commit, hret, pret>>

\* Parse without the check of the description
ParseResultNoDescriptionCheck(r) ==
    IF r.err # NoError THEN [c |-> NilCommit, err |-> r.err]
    ELSE IF r.c.Type = <<>>
         THEN [c |-> NilCommit, err |-> errorsNew("commit header must contain a type")]
    ELSE [c |-> r.c, err |-> NoError]

\* Parse with the two cases of the switch in the other order
ParseResultDescriptionFirst(r) ==
    IF r.err # NoError THEN [c |-> NilCommit, err |-> r.err]
    ELSE IF r.c.Description = <<>>
         THEN [c |-> NilCommit, err |-> errorsNew("commit header must contain a description")]
    ELSE IF r.c.Type = <<>>
         THEN [c |-> NilCommit, err |-> errorsNew("commit header must contain a type")]
    ELSE [c |-> r.c, err |-> NoError]

\* what Parse returns for what parseHeader returned
ParseResult(r) ==
    IF r.err # NoError THEN [c |-> NilCommit, err |-> r.err]
    ELSE IF r.c.Type = <<>>
         THEN [c |-> NilCommit, err |-> errorsNew("commit header must contain a type")]
    ELSE IF r.c.Description = <<>>
         THEN [c |-> NilCommit, err |-> errorsNew("commit header must contain a description")]
    ELSE [c |-> r.c, err |-> NoError]

ParseReturn ==
    /\ pc = "returned"
    /\ entry = "Parse"
    /\ pret' = ParseResult(hret)
    /\ pc' = "done"
    /\ UNCHANGED <<heap, confs, errText, cfg, newret, other, entry, s, h, line, i, inDescription, inScope, b, commit, hret>>

---------------------------------------------------------------------------
(* The caller invokes Parse(s), or parseHeader(s, n) directly *)

\* the caller's locals before its call
CallerInit ==
    /\ entry \in {"Parse", "parseHeader"}
    /\ s \in Inputs
    /\ IF entry = "Parse"
       THEN pc = "Parse" /\ h = <<>> /\ line = 0
       ELSE pc = "parseHeader" /\ h = s /\ line \in LineNumbers
    /\ i = 0
    /\ inDescription = FALSE
    /\ inScope = FALSE
    /\ b = <<>>
    /\ commit = Commit
    /\ hret = [c |-> NilCommit, err |-> NoError]
    /\ pret = [c |-> NilCommit, err |-> NoError]
    /\ errText = ""

\* the state after p, err := New(&Config{}), as the tests construct the Parser
Constructed ==
    /\ cfg = New(Config).cfg
    /\ newret = [p |-> New(Config).p, err |-> New(Config).err]

Init ==
    /\ CallerInit
    /\ Constructed
    /\ other = NoCaller
    /\ NoSharing

\* the caller asks the error it got for its text: err.Error()
ErrorCall ==
    /\ errText = ""
    /\ \/ /\ pc = "returned"
          /\ entry = "parseHeader"
          /\ hret.err # NoError
          /\ errText' = Error(hret.err)
       \/ /\ pc = "done"
          /\ pret.err # NoError
          /\ errText' = Error(pret.err)
    /\ UNCHANGED <<heap, confs, entry, s, pc, h, line, i, inDescription, inScope, b, commit, hret, pret,
                   cfg, newret, other>>

Next ==
    \/ ParseCall
    \/ StepDescription
    \/ StepLParen
    \/ StepRParen
    \/ StepColon
    \/ StepSpace
    \/ StepDefault
    \/ EndOfLine
    \/ ParseReturn
    \/ ErrorCall

Spec == Init /\ [][Next]_vars

---------------------------------------------------------------------------
(* The caller builds a Config and invokes New(cfg) *)

InitNew ==
    /\ cfg \in Configs
    /\ newret = [p |-> NilParser, err |-> NoError]
    /\ pc = "New"
    /\ entry = "New"
    /\ s = <<>>
    /\ h = <<>>
    /\ line = 0
    /\ i = 0
    /\ inDescription = FALSE
    /\ inScope = FALSE
    /\ b = <<>>
    /\ commit = Commit
    /\ hret = [c |-> NilCommit, err |-> NoError]
    /\ pret = [c |-> NilCommit, err |-> NoError]
    /\ errText = ""
    /\ other = NoCaller
    /\ NoSharing

NextNew == NewCall

SpecNew == InitNew /\ [][NextNew]_vars

---------------------------------------------------------------------------
(* Parse and parseHeader as functions: a call that runs alone, start to end *)

\* the rest of the loop of parseHeader(str, ln) from the locals st on, and
\* what follows the loop
RECURSIVE scanFrom(_, _, _)
scanFrom(str, ln, st) ==
    IF st.i >= Len(str)
    THEN IF ~st.inDescription
         THEN [c |-> NilCommit,
               err |-> ParseError(Len(str) - 1, ln, fmtError(MustBeFollowed, st.inScope))]
         ELSE [c |-> [st.commit EXCEPT !.Description = TrimSpace(st.b)], err |-> NoError]
    ELSE
    LET d == DecodeRune(str, st.i)
        next == st.i + d.size
        fail(e) == [c |-> NilCommit, err |-> e]
    IN
    IF st.inDescription
    THEN scanFrom(str, ln, [st EXCEPT !.i = next, !.b = @ \o EncodeRune(d.rune)])
    ELSE IF d.rune = LParen
    THEN IF st.inScope
         THEN fail(ParseError(st.i, ln, "illegal '(' character in scope"))
         ELSE IF st.b = <<>>
         THEN fail(ParseError(st.i, ln, "illegal '(' character in type"))
         ELSE scanFrom(str, ln, [st EXCEPT !.i = next, !.inScope = TRUE,
                                           !.commit.Type = st.b, !.b = <<>>])
    ELSE IF d.rune = RParen
    THEN IF ~st.inScope
         THEN fail(ParseError(st.i, ln, "illegal ')' character in type"))
         ELSE scanFrom(str, ln, [st EXCEPT !.i = next, !.commit.Scope = st.b, !.b = <<>>])
    ELSE IF d.rune = Colon
    THEN IF ColonChar(str, st.i) # 0
         THEN fail(ParseError(ColonChar(str, st.i), ln, fmtError(MustBeFollowed, st.inScope)))
         ELSE IF ~st.inScope
         THEN scanFrom(str, ln, [st EXCEPT !.i = next, !.inDescription = TRUE,
                                           !.commit.Type = st.b, !.b = <<>>])
         ELSE scanFrom(str, ln, [st EXCEPT !.i = next, !.inDescription = TRUE])
    ELSE IF d.rune = Space
    THEN fail(ParseError(st.i, ln, fmtError(IllegalSpace, st.inScope)))
    ELSE IF st.commit.Scope # <<>>
    THEN fail(ParseError(st.i, ln,
                  "commit scope must be followed by a colon and a single space"))
    ELSE scanFrom(str, ln, [st EXCEPT !.i = next, !.b = @ \o EncodeRune(d.rune)])

\* p.parseHeader(str, ln)
parseHeader(str, ln) ==
    scanFrom(str, ln, [i |-> 0, inDescription |-> FALSE, inScope |-> FALSE,
                       b |-> <<>>, commit |-> Commit])

\* p.Parse(str)
Parse(str) == ParseResult(parseHeader(Split(str)[1], 1))

---------------------------------------------------------------------------
(* Two callers of one Parser: goroutines that the scheduler switches between *)

\* the messages of the concurrent callers: those of the tests and the README,
\* the empty line, ":", "a " and "a()a: "
ConcInputs ==
    LiteralInputs \cup {<<>>, <<Colon>>, <<97, Space>>, <<97, LParen, RParen, 97, Colon, Space>>}

\* the locals of the running caller
Locals ==
    [entry |-> entry, s |-> s, pc |-> pc, h |-> h, line |-> line, i |-> i,
     inDescription |-> inDescription, inScope |-> inScope, b |-> b, commit |-> commit,
     hret |-> hret, pret |-> pret, errText |-> errText]

\* the locals of a caller before its call of Parse(str) or parseHeader(str, ln)
InitialLocals(e, str, ln) ==
    [entry |-> e, s |-> str,
     pc |-> e,
     h |-> IF e = "Parse" THEN <<>> ELSE str,
     line |-> IF e = "Parse" THEN 0 ELSE ln,
     i |-> 0, inDescription |-> FALSE, inScope |-> FALSE, b |-> <<>>, commit |-> Commit,
     hret |-> [c |-> NilCommit, err |-> NoError],
     pret |-> [c |-> NilCommit, err |-> NoError],
     errText |-> ""]

\* the scheduler suspends the running caller and resumes the other one; the
\* Config and the Parser are shared, everything else belongs to a caller
Switch ==
    /\ other # NoCaller
    /\ other' = Locals
    /\ entry' = other.entry
    /\ s' = other.s
    /\ pc' = other.pc
    /\ h' = other.h
    /\ line' = other.line
    /\ i' = other.i
    /\ inDescription' = other.inDescription
    /\ inScope' = other.inScope
    /\ b' = other.b
    /\ commit' = other.commit
    /\ hret' = other.hret
    /\ pret' = other.pret
    /\ errText' = other.errText
    /\ UNCHANGED <<cfg, newret, heap, confs>>

InitConc ==
    /\ CallerInit
    /\ s \in ConcInputs
    /\ Constructed
    /\ NoSharing
    /\ other \in {InitialLocals("Parse", str, 0) : str \in ConcInputs}
                 \cup {InitialLocals("parseHeader", str, ln) :
                          str \in ConcInputs, ln \in LineNumbers}

NextConc == Next \/ Switch

SpecConc == InitConc /\ [][NextConc]_vars

---------------------------------------------------------------------------
(* Two callers that build a Config each and call New in one process *)

InitShared ==
    /\ heap = CallersHeap
    /\ confs \in [Callers -> {[cfg |-> c, pc |-> "New",
                               ret |-> [p |-> NilParser, err |-> NoError]] :
                                 c \in UNION {SharedConfigs(k) : k \in Callers}}]
    /\ \A k \in Callers : confs[k].cfg \in SharedConfigs(k)
    /\ pc = "callers"
    /\ entry = "New"
    /\ cfg = Config
    /\ newret = [p |-> NilParser, err |-> NoError]
    /\ s = <<>>
    /\ h = <<>>
    /\ line = 0
    /\ i = 0
    /\ inDescription = FALSE
    /\ inScope = FALSE
    /\ b = <<>>
    /\ commit = Commit
    /\ hret = [c |-> NilCommit, err |-> NoError]
    /\ pret = [c |-> NilCommit, err |-> NoError]
    /\ errText = ""
    /\ other = NoCaller

NextShared ==
    \/ \E k \in Callers : NewShared(k)
    \/ \E k \in Callers, f \in SliceFields : SetElement(k, f)

SpecShared == InitShared /\ [][NextShared]_vars

---------------------------------------------------------------------------
(* Vocabulary of the properties *)

\* parseHeader has returned
Returned == pc \in {"returned", "done"}
\* parseHeader returned a Commit and no error
Accepted == Returned /\ hret.err = NoError

\* 1-based index of the first byte c of str, 0 when there is none
FirstIndex(str, c) ==
    IF \A k \in 1..Len(str) : str[k] # c THEN 0
    ELSE CHOOSE k \in 1..Len(str) : str[k] = c /\ \A j \in 1..(k - 1) : str[j] # c

\* str has no space, parenthesis, colon or newline
Plain(str) == \A k \in 1..Len(str) : str[k] \notin {Space, LParen, RParen, Colon, Newline}

White(c) == c \in {9, 10, 11, 12, 13, 32}

\* y is x without its leading and trailing white space
IsTrimOf(y, x) ==
    \E lo \in 1..(Len(x) + 1), hi \in 0..Len(x) :
        /\ y = SubSeq(x, lo, hi)
        /\ \A k \in 1..Len(x) : (k < lo \/ k > hi) => White(x[k])
        /\ y # <<>> => ~White(y[1]) /\ ~White(y[Len(y)])

\* the part of str from 1-based index k on
From(str, k) == SubSeq(str, k, Len(str))

\* str is type + ": " + description, both plain
TypeDescShape(str) ==
    LET k == FirstIndex(str, Colon) IN
    /\ k > 0
    /\ k < Len(str)
    /\ str[k + 1] = Space
    /\ Plain(SubSeq(str, 1, k - 1))
    /\ Plain(From(str, k + 2))
TD_Type(str) == SubSeq(str, 1, FirstIndex(str, Colon) - 1)
TD_Desc(str) == From(str, FirstIndex(str, Colon) + 2)

\* str is type + "(" + scope + "): " + description, all three plain
TypeScopeDescShape(str) ==
    LET k1 == FirstIndex(str, LParen)
        k2 == FirstIndex(str, RParen)
    IN  /\ k1 > 0
        /\ k2 > k1
        /\ Len(str) >= k2 + 2
        /\ str[k2 + 1] = Colon
        /\ str[k2 + 2] = Space
        /\ Plain(SubSeq(str, 1, k1 - 1))
        /\ Plain(SubSeq(str, k1 + 1, k2 - 1))
        /\ Plain(From(str, k2 + 3))
TSD_Type(str) == SubSeq(str, 1, FirstIndex(str, LParen) - 1)
TSD_Scope(str) == SubSeq(str, FirstIndex(str, LParen) + 1, FirstIndex(str, RParen) - 1)
TSD_Desc(str) == From(str, FirstIndex(str, RParen) + 3)

\* the scanner is at a colon outside Description state
AtHeaderColon == AtChar /\ ~inDescription /\ cur.rune = Colon

\* the "must be followed" message for the field being scanned
FollowedMsg(scope) ==
    IF scope THEN "commit scope must be followed by a colon and a single space"
    ELSE "commit type must be followed by a colon and a single space"

\* parseHeader fails, in the next state, with the ParseError of column char
FailsNextAt(char, message) ==
    /\ pc' = "returned"
    /\ hret' = [c |-> NilCommit,
                err |-> [kind |-> "ParseError", Char |-> char, Line |-> line,
                         Message |-> message]]

---------------------------------------------------------------------------
(* C1 *)

\* C1: whenever Parse returns a Commit without error, the Commit has a
\* non-empty Type and a non-empty Description (Scope may be empty), whatever
\* the characters of the first line.
C1_ParsedCommitHasTypeAndDescription ==
    (pc = "done" /\ pret.err = NoError) =>
        /\ pret.c # NilCommit
        /\ pret.c.Type # <<>>
        /\ pret.c.Description # <<>>

\* Parse has returned a Commit, one with an empty Scope
C1_Witness == pc = "done" /\ pret.err = NoError /\ pret.c # NilCommit /\ pret.c.Scope = <<>>

---------------------------------------------------------------------------
(* C2 *)

\* C2: for plain type and description (no space, parenthesis, colon or
\* newline), parseHeader(type + ": " + description) succeeds with Type = type,
\* Scope = "" and Description = the description trimmed of white space, and
\* Parse returns the same record when type and the trimmed description are
\* not empty.
C2_TypeDescriptionParses ==
    /\ (Returned /\ TypeDescShape(h)) =>
            /\ hret.err = NoError
            /\ hret.c # NilCommit
            /\ hret.c.Type = TD_Type(h)
            /\ hret.c.Scope = <<>>
            /\ IsTrimOf(hret.c.Description, TD_Desc(h))
    /\ (/\ pc = "done"
        /\ TypeDescShape(s)
        /\ TD_Type(s) # <<>>
        /\ \E k \in 1..Len(TD_Desc(s)) : ~White(TD_Desc(s)[k])) =>
            /\ pret.err = NoError
            /\ pret.c = hret.c
            /\ pret.c.Type = TD_Type(s)
            /\ pret.c.Scope = <<>>
            /\ IsTrimOf(pret.c.Description, TD_Desc(s))

\* Parse has returned the record of a "type: description" line whose
\* description had white space to trim
C2_Witness ==
    /\ pc = "done"
    /\ TypeDescShape(s)
    /\ pret.err = NoError
    /\ pret.c # NilCommit
    /\ pret.c.Description # TD_Desc(s)

---------------------------------------------------------------------------
(* C3 *)

\* what C3 concludes for a line of the shape type(scope): description
C3_Parsed ==
    /\ hret.err = NoError
    /\ hret.c # NilCommit
    /\ hret.c.Type = TSD_Type(h)
    /\ hret.c.Scope = TSD_Scope(h)
    /\ IsTrimOf(hret.c.Description, TSD_Desc(h))

\* C3 as stated: for all plain type, scope and description, parsing
\* type + "(" + scope + "): " + description succeeds with Type = type,
\* Scope = scope and Description = the trimmed description.
C3_AsStated == (Returned /\ TypeScopeDescShape(h)) => C3_Parsed

\* C3, amended: the same for every plain type that is not empty (an empty type
\* before '(' is the error "illegal '(' character in type"); Parse returns the
\* same record when the trimmed description is not empty either.
C3_TypeScopeDescriptionParses ==
    /\ (Returned /\ TypeScopeDescShape(h) /\ TSD_Type(h) # <<>>) => C3_Parsed
    /\ (/\ pc = "done"
        /\ TypeScopeDescShape(s)
        /\ TSD_Type(s) # <<>>
        /\ \E k \in 1..Len(TSD_Desc(s)) : ~White(TSD_Desc(s)[k])) =>
            /\ pret.err = NoError
            /\ pret.c = hret.c
            /\ pret.c.Scope = TSD_Scope(s)

\* parseHeader has returned the record of a type(scope): description line
\* with all three parts present
C3_Witness ==
    /\ Accepted
    /\ TypeScopeDescShape(h)
    /\ hret.c.Type # <<>>
    /\ hret.c.Scope # <<>>
    /\ hret.c.Description # <<>>

---------------------------------------------------------------------------
(* C4 *)

\* the first ')' of str closes a scope: a plain non-empty type, '(' and a plain
\* (possibly empty) scope precede it
ClosesScope(str) ==
    LET k1 == FirstIndex(str, LParen)
        k2 == FirstIndex(str, RParen)
    IN  /\ k1 > 1
        /\ k2 > k1
        /\ Plain(SubSeq(str, 1, k1 - 1))
        /\ Plain(SubSeq(str, k1 + 1, k2 - 1))

\* C4: when the ')' that closes a scope is followed by anything but ':', or
\* by the end of the line, parseHeader fails with a ParseError and returns no
\* Commit; for an ordinary character the message is "commit scope must be
\* followed by a colon and a single space" at that character's column.
C4_ClosedScopeNeedsColon ==
    LET k2 == FirstIndex(h, RParen) IN
    (Returned /\ ClosesScope(h) /\ (k2 = Len(h) \/ h[k2 + 1] # Colon)) =>
        /\ hret.c = NilCommit
        /\ hret.err.kind = "ParseError"
        /\ (k2 < Len(h) /\ h[k2 + 1] \notin {LParen, RParen, Colon, Space}) =>
                /\ hret.err.Char = k2
                /\ hret.err.Message =
                       "commit scope must be followed by a colon and a single space"

---------------------------------------------------------------------------
(* C5 *)

\* C5: a ':' met outside Description state as the last character of the
\* line, at any column, column 0 included, makes parseHeader fail with a
\* ParseError at the colon's own position, with the "type must be followed"
\* message, or the "scope" one when a scope had been opened.
C5_ColonAtEndOfLineFails ==
    [][(AtHeaderColon /\ i + 1 = Len(h)) => FailsNextAt(i, FollowedMsg(inScope))]_vars

---------------------------------------------------------------------------
(* C6 *)

\* C6: if the character right after a header colon at index i is not a space,
\* parseHeader fails with Char = i+1; if the two characters after it are both
\* spaces, it fails with Char = i+2, whatever follows; the message is the
\* "type must be followed" one, or the "scope" one when a scope had been opened.
C6_ColonNeedsExactlyOneSpace ==
    [][/\ (AtHeaderColon /\ i + 1 < Len(h) /\ h[i + 2] # Space) =>
              FailsNextAt(i + 1, FollowedMsg(inScope))
       /\ (AtHeaderColon /\ i + 2 < Len(h) /\ h[i + 2] = Space /\ h[i + 3] = Space) =>
              FailsNextAt(i + 2, FollowedMsg(inScope))]_vars

\* parseHeader has failed on a colon of an opened scope that two spaces and
\* more text follow
C6_Witness ==
    /\ pc = "returned"
    /\ ~inDescription
    /\ inScope
    /\ i + 3 < Len(h)
    /\ h[i + 1] = Colon
    /\ h[i + 2] = Space
    /\ h[i + 3] = Space
    /\ hret.err.kind = "ParseError"
    /\ hret.err.Char = i + 2

---------------------------------------------------------------------------
(* C7 *)

\* C7: if the scan ends without ever entering Description state, parseHeader
\* fails with the "type must be followed" message (the "scope" one when a
\* scope had been opened) at Char = len(line) - 1.
C7_EndOfLineBeforeDescription ==
    (Returned /\ i = Len(h) /\ ~inDescription) =>
        hret = [c |-> NilCommit,
                err |-> [kind |-> "ParseError", Char |-> Len(h) - 1, Line |-> line,
                         Message |-> FollowedMsg(inScope)]]

\* the scan of a line with a scope has ended before any header colon
C7_Witness ==
    /\ Returned
    /\ i = Len(h)
    /\ ~inDescription
    /\ inScope
    /\ commit.Scope # <<>>
    /\ hret.err.kind = "ParseError"

---------------------------------------------------------------------------
(* C8 *)

\* C8: a header accepted with an empty Type makes Parse fail with the
\* unpositioned "commit header must contain a type"; one accepted with a Type
\* and an empty Description ("type: ", "type(scope): ") makes it fail with the
\* unpositioned "commit header must contain a description"; neither is a
\* ParseError, and every ParseError of the scanner is returned unchanged.
C8_TwoTierErrors ==
    /\ (pc = "done" /\ hret.err = NoError /\ hret.c.Type = <<>>) =>
            /\ pret.c = NilCommit
            /\ pret.err = [kind |-> "errorString",
                           Message |-> "commit header must contain a type"]
            /\ pret.err.kind # "ParseError"
    /\ (pc = "done" /\ hret.err = NoError /\ hret.c.Type # <<>>
            /\ hret.c.Description = <<>>) =>
            /\ pret.c = NilCommit
            /\ pret.err = [kind |-> "errorString",
                           Message |-> "commit header must contain a description"]
            /\ pret.err.kind # "ParseError"
    /\ (pc = "done" /\ hret.err # NoError) =>
            /\ hret.err.kind = "ParseError"
            /\ pret.c = NilCommit
            /\ pret.err = hret.err
    /\ (Returned /\ (TypeDescShape(h) \/ TypeScopeDescShape(h))
            /\ h[Len(h)] = Space /\ h[Len(h) - 1] = Colon
            /\ FirstIndex(h, Colon) > 1 /\ FirstIndex(h, LParen) # 1) =>
            /\ hret.err = NoError
            /\ hret.c.Type # <<>>
            /\ hret.c.Description = <<>>

\* Parse has rejected "type(scope): ", which the scanner accepted
C8_Witness ==
    /\ pc = "done"
    /\ hret.err = NoError
    /\ hret.c.Type # <<>>
    /\ hret.c.Scope # <<>>
    /\ hret.c.Description = <<>>
    /\ pret.err.kind = "errorString"

---------------------------------------------------------------------------
(* C9 *)

\* the text of str after its first colon and the space that follows it
AfterHeaderColon(str) == From(str, FirstIndex(str, Colon) + 2)

\* C9: whenever parseHeader succeeds, Description is exactly the trimmed text
\* that follows the header colon and its single space; no character that
\* preceded the colon is part of it.
C9_DescriptionIsTextAfterColon ==
    Accepted => IsTrimOf(hret.c.Description, AfterHeaderColon(h))

---------------------------------------------------------------------------
(* C10 *)

---------------------------------------------------------------------------
(* C11 *)

\* C11: every ParseError parseHeader(line, n) returns has Line = n and a Char
\* that is a position of the line, 0 <= Char < len(line), for every line, the
\* empty one included.
C11_ParseErrorPositionInLine ==
    (Returned /\ hret.err.kind = "ParseError") =>
        /\ hret.err.Line = line
        /\ 0 <= hret.err.Char
        /\ hret.err.Char < Len(h)

---------------------------------------------------------------------------
(* C12 *)

\* the messages a ParseError carries
Vocabulary ==
    {"illegal '(' character in scope", "illegal '(' character in type",
     "illegal ')' character in type",
     "illegal ' ' character in type", "illegal ' ' character in scope",
     "commit type must be followed by a colon and a single space",
     "commit scope must be followed by a colon and a single space"}

\* the error the caller got
CallerError == IF entry = "parseHeader" THEN hret.err ELSE pret.err

\* C12: a ParseError with message m, line l and column c renders through
\* Error() as m + ":" + l + " col " + c ("type(scope):" gives "commit scope
\* must be followed by a colon and a single space:1 col 11"), and m is one of
\* the fixed messages, with the field word "type" or "scope".
C12_ErrorRendering ==
    /\ (Returned /\ hret.err.kind = "ParseError") => hret.err.Message \in Vocabulary
    /\ (errText # "" /\ CallerError.kind = "ParseError") =>
            errText = CallerError.Message \o ":" \o ToString(CallerError.Line)
                          \o " col " \o ToString(CallerError.Char)
    /\ (errText # "" /\ h = TypeScopeColon /\ line = 1) =>
            errText = "commit scope must be followed by a colon and a single space:1 col 11"

\* the caller has the text of the error of "type(scope):", a column of two digits
C12_Witness ==
    /\ errText # ""
    /\ h = TypeScopeColon
    /\ CallerError.kind = "ParseError"
    /\ CallerError.Char = 11

---------------------------------------------------------------------------
(* C13 *)

\* New has returned a Parser
NewSucceeded == pc = "NewReturned" /\ newret.err = NoError

\* C13: after New(cfg) succeeds, the field matcher of the Config is the one
\* compiled from FieldPattern when it was supplied and the default ^-(.*?)-$
\* when it was not; the revert matcher likewise is the compiled RevertPattern
\* or the default; the merge matcher is absent when MergePattern is empty.
C13_CompiledMatchers ==
    NewSucceeded =>
        /\ cfg.fieldPattern =
               [isNil |-> FALSE,
                expr |-> IF cfg.FieldPattern # "" THEN cfg.FieldPattern ELSE "^-(.*?)-$"]
        /\ cfg.revertPattern =
               [isNil |-> FALSE,
                expr |-> IF cfg.RevertPattern # "" THEN cfg.RevertPattern
                         ELSE "^Revert\\s\"([\\s\\S]*)\"\\s*This reverts commit (\\w*)\\."]
        /\ cfg.MergePattern = "" => cfg.mergePattern.isNil

---------------------------------------------------------------------------
(* C14 *)

\* the pattern fields of the Config whose supplied string does not compile
BadPatternFields ==
    {f \in {"FieldPattern", "MergePattern", "RevertPattern"} : cfg[f] \in InvalidPatterns}

\* C14: New(cfg) returns a nil Parser and an error that names the field and
\* the pattern text if and only if one of the supplied FieldPattern,
\* MergePattern and RevertPattern does not compile; otherwise it returns a
\* Parser and no error.
C14_NewFailsOnBadPattern ==
    pc = "NewReturned" =>
        /\ (newret.err # NoError) <=> (BadPatternFields # {})
        /\ (newret.p = NilParser) <=> (newret.err # NoError)
        /\ (newret.p = Parser) <=> (newret.err = NoError)
        /\ newret.err # NoError =>
               \E f \in BadPatternFields :
                   newret.err.Message =
                       "cannot parse " \o f \o " /" \o cfg[f] \o "/: "
                           \o newret.err.Unwrap.Message

\* New has failed on a MergePattern that does not compile, after a
\* FieldPattern that does
C14_Witness ==
    /\ pc = "NewReturned"
    /\ cfg.FieldPattern = "^a$"
    /\ cfg.MergePattern = "("
    /\ newret.p = NilParser
    /\ newret.err # NoError

---------------------------------------------------------------------------
(* C15 *)

\* what a caller with the locals c has got is what its call returns alone
SameAsAlone(c) ==
    /\ c.pc \in {"returned", "done"} /\ c.entry = "parseHeader" =>
           c.hret = parseHeader(c.s, c.line)
    /\ c.pc = "done" => c.pret = Parse(c.s)

\* C15: once New has completed, callers may run Parse and parseHeader
\* concurrently on one Parser: no call writes to the Parser or its Config, and
\* under every interleaving each call returns what it returns when run alone.
C15_ConcurrentCallsIndependent ==
    /\ cfg = New(Config).cfg
    /\ newret = [p |-> Parser, err |-> NoError]
    /\ SameAsAlone(Locals)
    /\ other # NoCaller => SameAsAlone(other)

\* a call of Parse has run from start to end while another caller, with a
\* different message, was suspended in the middle of its scan
C15_Witness ==
    /\ other # NoCaller
    /\ pc = "done"
    /\ pret.err = NoError
    /\ other.pc = "parseHeader"
    /\ other.i > 0
    /\ other.i < Len(other.h)
    /\ other.s # s

---------------------------------------------------------------------------
(* C16 *)

\* C16: before the description, a '(' met while a scope is open fails at its
\* own column with "illegal '(' character in scope"; otherwise a '(' met with
\* an empty buffer fails there with "illegal '(' character in type" and a '('
\* met with a filled buffer stores the buffer as Type, resets the buffer and
\* opens the scope; a ')' met when no scope has been opened fails at its own
\* column with "illegal ')' character in type".
C16_IllegalParentheses ==
    [][/\ (AtChar /\ ~inDescription /\ cur.rune = LParen) =>
              IF inScope THEN FailsNextAt(i, "illegal '(' character in scope")
              ELSE IF b = <<>> THEN FailsNextAt(i, "illegal '(' character in type")
              ELSE /\ commit'.Type = b
                   /\ b' = <<>>
                   /\ inScope'
                   /\ pc' = "parseHeader"
                   /\ i' = i + 1
                   /\ hret' = hret
       /\ (AtChar /\ ~inDescription /\ cur.rune = RParen /\ ~inScope) =>
              FailsNextAt(i, "illegal ')' character in type")]_vars

\* parseHeader is past a legal '(': the type is stored, the buffer is empty
\* again and the scope is open
C16_Witness ==
    /\ pc = "parseHeader"
    /\ i > 1
    /\ h[i] = LParen
    /\ inScope
    /\ ~inDescription
    /\ commit.Type = SubSeq(h, 1, i - 1)
    /\ b = <<>>

---------------------------------------------------------------------------
(* C17 *)

\* C17: a space met before the description fails at its own column, with
\* "illegal ' ' character in type" when no scope has been opened and with
\* "illegal ' ' character in scope" once one has been; and no line with a
\* space before its first colon is accepted.
C17_SpaceBeforeDescription ==
    /\ [][(AtChar /\ ~inDescription /\ cur.rune = Space) =>
              FailsNextAt(i, IF inScope THEN "illegal ' ' character in scope"
                                        ELSE "illegal ' ' character in type")]_vars
    /\ [](Accepted => \A k \in 1..(FirstIndex(h, Colon) - 1) : h[k] # Space)

\* parseHeader has failed on a space inside an opened scope
C17_Witness ==
    /\ pc = "returned"
    /\ inScope
    /\ ~inDescription
    /\ i < Len(h)
    /\ h[i + 1] = Space
    /\ hret.c = NilCommit
    /\ hret.err = [kind |-> "ParseError", Char |-> i, Line |-> line,
                   Message |-> "illegal ' ' character in scope"]

---------------------------------------------------------------------------
(* C18 *)

\* C18: once parseHeader is in the description, it stays there: every
\* remaining character, whatever it is, is appended to the buffer, no error is
\* returned, and Type and Scope keep their values up to the Commit returned.
C18_DescriptionAbsorbing ==
    [][(pc = "parseHeader" /\ inDescription) =>
           /\ inDescription'
           /\ commit'.Type = commit.Type
           /\ commit'.Scope = commit.Scope
           /\ hret'.err = NoError
           /\ i < Len(h) =>
                  /\ pc' = "parseHeader"
                  /\ i' > i
                  /\ i' <= Len(h)
                  /\ b' = b \o SubSeq(h, i + 1, i')
           /\ i >= Len(h) =>
                  /\ pc' = "returned"
                  /\ hret'.c.Type = commit.Type
                  /\ hret'.c.Scope = commit.Scope]_vars

\* parseHeader has scanned a description that holds a parenthesis or a colon
\* to the end of the line
C18_Witness ==
    /\ pc = "parseHeader"
    /\ inDescription
    /\ i = Len(h)
    /\ commit.Type # <<>>
    /\ \E k \in 1..Len(b) : b[k] \in {LParen, RParen, Colon}
    /\ \E k \in 1..Len(b) : b[k] = Space

---------------------------------------------------------------------------
(* C19 *)

\* the text before the first newline of str
FirstLine(str) ==
    IF FirstIndex(str, Newline) = 0 THEN str
    ELSE SubSeq(str, 1, FirstIndex(str, Newline) - 1)

\* "fix", "foo", "fixed the foos"
README_Type == <<102, 105, 120>>
README_Scope == <<102, 111, 111>>
README_Description == <<102, 105, 120, 101, 100, 32, 116, 104, 101, 32, 102, 111, 111, 115>>

\* C19: the outcome of Parse is its outcome for the text before the first
\* newline alone; a ParseError of Parse has Line = 1; on success Header,
\* MergeHeader, Body, Footers, Mentions, References, Notes, Reverts and
\* IsBreaking are zero; the message of the README gives Type "fix", Scope
\* "foo" and Description "fixed the foos".
C19_ParseFirstLineOnly ==
    (pc = "done" /\ entry = "Parse") =>
        /\ pret = Parse(FirstLine(s))
        /\ h = FirstLine(s)
        /\ pret.err # NoError /\ pret.err.kind = "ParseError" => pret.err.Line = 1
        /\ pret.err = NoError =>
               pret.c = [Commit EXCEPT !.Type = pret.c.Type, !.Scope = pret.c.Scope,
                                       !.Description = pret.c.Description]
        /\ s = ReadmeMessage =>
               /\ pret.err = NoError
               /\ pret.c.Type = README_Type
               /\ pret.c.Scope = README_Scope
               /\ pret.c.Description = README_Description

\* Parse has returned the Commit of the message of the README, which has a
\* body and a footer after its header
C19_Witness ==
    /\ pc = "done"
    /\ entry = "Parse"
    /\ s = ReadmeMessage
    /\ Len(s) > Len(h)
    /\ pret.err = NoError
    /\ pret.c.Description = README_Description

---------------------------------------------------------------------------
(* C20 *)

\* the number of code points of str
RECURSIVE RuneCountFrom(_, _)
RuneCountFrom(str, k) ==
    IF k >= Len(str) THEN 0 ELSE 1 + RuneCountFrom(str, k + DecodeRune(str, k).size)
RuneCount(str) == RuneCountFrom(str, 0)

\* the start (0-based byte index) of the character that parseHeader has
\* failed on: the last character of the line at the end of the line, the
\* character that the peek ahead of a colon names, the current character
\* otherwise
OffendingStart ==
    IF i >= Len(h) THEN LastRuneStart(h)
    ELSE IF cur.rune = Colon THEN ColonChar(h, i)
    ELSE i

\* C20: for a line with multi-byte characters, the Char of a ParseError is
\* the number of code points before the offending character, the offending
\* character of the end-of-line error being the last one of the line.
C20_CharCountsCodePoints ==
    (/\ Returned
     /\ hret.err # NoError
     /\ \E k \in 1..Len(h) : h[k] >= 128) =>
        hret.err.Char = RuneCount(SubSeq(h, 1, OffendingStart))

---------------------------------------------------------------------------
(* C22 *)

\* the characters that structure a header
Structural == {Space, LParen, RParen, Colon}

\* 1-based index of the first '(' or ':' of str, 0 when there is none
FirstParenOrColon(str) ==
    IF \A k \in 1..Len(str) : str[k] \notin {LParen, Colon} THEN 0
    ELSE CHOOSE k \in 1..Len(str) :
             /\ str[k] \in {LParen, Colon}
             /\ \A j \in 1..(k - 1) : str[j] \notin {LParen, Colon}

\* C22: whenever parseHeader succeeds, neither Type nor Scope contains a
\* space, '(', ')' or ':', and Type is the prefix of the line that precedes its
\* first '(' or ':'.
C22_TypeAndScopeArePlain ==
    Accepted =>
        /\ \A k \in 1..Len(hret.c.Type) : hret.c.Type[k] \notin Structural
        /\ \A k \in 1..Len(hret.c.Scope) : hret.c.Scope[k] \notin Structural
        /\ FirstParenOrColon(h) > 0
        /\ hret.c.Type = SubSeq(h, 1, FirstParenOrColon(h) - 1)

\* parseHeader has succeeded on a line with a type, a scope and, in its
\* description, a structural character
C22_Witness ==
    /\ Accepted
    /\ entry = "parseHeader"
    /\ hret.c.Type # <<>>
    /\ hret.c.Scope # <<>>
    /\ h[FirstParenOrColon(h)] = LParen
    /\ \E k \in 1..Len(hret.c.Description) : hret.c.Description[k] \in Structural

---------------------------------------------------------------------------
(* C21 *)

\* the lists a reader of caller k's Config sees
View(k) ==
    [f \in SliceFields |->
        IF confs[k].cfg[f].isNil THEN <<>> ELSE heap[confs[k].cfg[f].array]]

\* the lists of the package-level defaults, which a later New hands out
PackageView == [a \in PackageArrays |-> heap[a]]

\* C21: the defaults are copied into each Config, never aliased: when a caller
\* changes an element of a list of its Config after New, the lists seen through
\* the other caller's Config and the package-level defaults stay as they were.
C21_DefaultsCopiedNotAliased ==
    [][\A k \in Callers, f \in SliceFields :
           SetElement(k, f) =>
               /\ \A j \in Callers \ {k} : View(j)' = View(j)
               /\ PackageView' = PackageView]_vars

====
